---- MODULE Spec2Model ----
(***************************************************************************)
(* The card-submission workflow of the anki-ai-agent extension: the        *)
(* add-card tool and its confirmation prompt (tools/add-card.ts), the      *)
(* deck-configuration store (storage.ts) and the AnkiConnect client        *)
(* (ankiConnect.ts), with the peer application and the approving user as   *)
(* the environment.                                                        *)
(*                                                                         *)
(* Text is a sequence of one-character strings.  Rendered HTML is a        *)
(* sequence of lexemes: the characters that pass through unchanged, and    *)
(* the tags and entities the renderer writes ("<p>", "<em>", "&lt;", ...). *)
(***************************************************************************)
EXTENDS Integers, Sequences, FiniteSets, TLC

(***************************************************************************)
(* String helpers (String.prototype.trim, split, join).                    *)
(***************************************************************************)
IsWhiteSpace(c) == c \in {" ", "\n"}

RECURSIVE TrimStart(_)
TrimStart(s) ==
  IF s # <<>> /\ IsWhiteSpace(s[1]) THEN TrimStart(Tail(s)) ELSE s

RECURSIVE TrimEnd(_)
TrimEnd(s) ==
  IF s # <<>> /\ IsWhiteSpace(s[Len(s)])
    THEN TrimEnd(SubSeq(s, 1, Len(s) - 1))
    ELSE s

Trim(s) == TrimEnd(TrimStart(s))

\* s.split(sep) for a one-character separator: always at least one piece.
RECURSIVE SplitOn(_, _, _, _)
SplitOn(s, sep, i, piece) ==
  IF i > Len(s) THEN <<piece>>
  ELSE IF s[i] = sep THEN <<piece>> \o SplitOn(s, sep, i + 1, <<>>)
  ELSE SplitOn(s, sep, i + 1, Append(piece, s[i]))

Split(s, sep) == SplitOn(s, sep, 1, <<>>)

\* pieces.join(sep), sep a sequence of characters.
RECURSIVE Join(_, _)
Join(pieces, sep) ==
  IF pieces = <<>> THEN <<>>
  ELSE IF Len(pieces) = 1 THEN pieces[1]
  ELSE pieces[1] \o sep \o Join(Tail(pieces), sep)

RECURSIVE Flatten(_)
Flatten(seqs) == IF seqs = <<>> THEN <<>> ELSE seqs[1] \o Flatten(Tail(seqs))

(***************************************************************************)
(* markdown-it, configured html: false, breaks: true, linkify: false, on   *)
(* the fragment of Markdown the model feeds it: letters, spaces, line      *)
(* breaks, single "_" emphasis delimiters and the characters HTML escapes. *)
(***************************************************************************)
IsPunct(c) == c \in {"_", "<", ">", "&", "\"", "*", ",", ":", ";", "/"}

\* A blank line: nothing but spaces.
IsBlankLine(line) == \A i \in DOMAIN line : line[i] = " "

\* The fragment: no run of two or more "_" (strong emphasis, thematic
\* breaks), no line indented by four spaces (code block), no "&" (entities).
MarkdownFragment(s) ==
  /\ \A i \in DOMAIN s : s[i] \in {"a", "b", " ", "\n", "_", "<"}
  /\ \A i \in 1..(Len(s) - 1) : ~(s[i] = "_" /\ s[i + 1] = "_")
  /\ \A i \in 1..(Len(s) - 3) : ~(\A j \in i..(i + 3) : s[j] = " ")

\* Block level: runs of consecutive non-blank lines are paragraphs.
RECURSIVE GroupParagraphs(_, _)
GroupParagraphs(lines, current) ==
  IF lines = <<>>
    THEN IF current = <<>> THEN <<>> ELSE <<current>>
  ELSE IF IsBlankLine(lines[1])
    THEN (IF current = <<>> THEN <<>> ELSE <<current>>)
           \o GroupParagraphs(Tail(lines), <<>>)
  ELSE GroupParagraphs(Tail(lines), Append(current, lines[1]))

\* The paragraph's content: its lines, joined, trimmed as a whole.
ParagraphContent(par) == Trim(Join(par, <<"\n">>))

\* The newline rule drops the spaces before a line break and skips those
\* after it.
RECURSIVE DropSpacesAroundBreaks(_)
DropSpacesAroundBreaks(s) ==
  IF \E i \in 1..(Len(s) - 1) :
       \/ s[i] = " " /\ s[i + 1] = "\n"
       \/ s[i] = "\n" /\ s[i + 1] = " "
    THEN LET i == CHOOSE k \in 1..(Len(s) - 1) :
                    \/ s[k] = " " /\ s[k + 1] = "\n"
                    \/ s[k] = "\n" /\ s[k + 1] = " "
             drop == IF s[i] = " " THEN i ELSE i + 1
         IN  DropSpacesAroundBreaks(
               SubSeq(s, 1, drop - 1) \o SubSeq(s, drop + 1, Len(s)))
    ELSE s

\* scanDelims for "_" (a marker that cannot split a word).
PrevChar(s, i) == IF i = 1 THEN " " ELSE s[i - 1]
NextChar(s, i) == IF i = Len(s) THEN " " ELSE s[i + 1]

LeftFlanking(s, i) ==
  /\ ~IsWhiteSpace(NextChar(s, i))
  /\ \/ ~IsPunct(NextChar(s, i))
     \/ IsWhiteSpace(PrevChar(s, i))
     \/ IsPunct(PrevChar(s, i))

RightFlanking(s, i) ==
  /\ ~IsWhiteSpace(PrevChar(s, i))
  /\ \/ ~IsPunct(PrevChar(s, i))
     \/ IsWhiteSpace(NextChar(s, i))
     \/ IsPunct(NextChar(s, i))

CanOpen(s, i) ==
  s[i] = "_" /\ LeftFlanking(s, i)
             /\ (~RightFlanking(s, i) \/ IsPunct(PrevChar(s, i)))

CanClose(s, i) ==
  s[i] = "_" /\ RightFlanking(s, i)
             /\ (~LeftFlanking(s, i) \/ IsPunct(NextChar(s, i)))

\* balance_pairs: a closer pairs with the nearest unpaired opener before it.
RECURSIVE MatchDelims(_, _, _, _)
MatchDelims(s, i, openers, pairs) ==
  IF i > Len(s) THEN pairs
  ELSE IF CanClose(s, i) /\ openers # <<>>
    THEN MatchDelims(s, i + 1, SubSeq(openers, 1, Len(openers) - 1),
                     pairs \cup {<<openers[Len(openers)], i>>})
  ELSE IF CanOpen(s, i)
    THEN MatchDelims(s, i + 1, Append(openers, i), pairs)
  ELSE MatchDelims(s, i + 1, openers, pairs)

\* escapeHtml
EscapeHtml(c) ==
  CASE c = "<"  -> "&lt;"
    [] c = ">"  -> "&gt;"
    [] c = "&"  -> "&amp;"
    [] c = "\"" -> "&quot;"
    [] OTHER    -> c

\* The characters of what the renderer writes in one piece.
Chars(lexeme) ==
  CASE lexeme = "<p>"    -> <<"<", "p", ">">>
    [] lexeme = "</p>"   -> <<"<", "/", "p", ">">>
    [] lexeme = "<em>"   -> <<"<", "e", "m", ">">>
    [] lexeme = "</em>"  -> <<"<", "/", "e", "m", ">">>
    [] lexeme = "<br>"   -> <<"<", "b", "r", ">">>
    [] lexeme = "&lt;"   -> <<"&", "l", "t", ";">>
    [] lexeme = "&gt;"   -> <<"&", "g", "t", ";">>
    [] lexeme = "&amp;"  -> <<"&", "a", "m", "p", ";">>
    [] lexeme = "&quot;" -> <<"&", "q", "u", "o", "t", ";">>
    [] OTHER             -> <<lexeme>>

\* The entity rule: a named entity is text, the character it names.
EntityNames == {"&lt;", "&gt;", "&amp;", "&quot;"}

DecodeEntity(name) ==
  CASE name = "&lt;"   -> "<"
    [] name = "&gt;"   -> ">"
    [] name = "&amp;"  -> "&"
    [] name = "&quot;" -> "\""

StartsAt(s, i, chars) ==
  /\ i + Len(chars) - 1 <= Len(s)
  /\ SubSeq(s, i, i + Len(chars) - 1) = chars

\* Mutant of EntityAt: no entity is recognised.
NoEntityAt(s, i) == ""

\* The entity that starts at s[i], "" for none.
EntityAt(s, i) ==
  IF \E name \in EntityNames : StartsAt(s, i, Chars(name))
    THEN CHOOSE name \in EntityNames : StartsAt(s, i, Chars(name))
    ELSE ""

InsideEntity(s, i) ==
  \E j \in 1..(i - 1) :
    EntityAt(s, j) # "" /\ i < j + Len(Chars(EntityAt(s, j)))

\* Inline level: emphasis, entities, line breaks (breaks: true), escaped
\* text.
RenderInline(content) ==
  LET s     == DropSpacesAroundBreaks(content)
      pairs == MatchDelims(s, 1, <<>>, {})
      lexemes == [i \in DOMAIN s |->
                    IF \E p \in pairs : p[1] = i THEN <<"<em>">>
                    ELSE IF \E p \in pairs : p[2] = i THEN <<"</em>">>
                    ELSE IF InsideEntity(s, i) THEN <<>>
                    ELSE IF EntityAt(s, i) # ""
                      THEN <<EscapeHtml(DecodeEntity(EntityAt(s, i)))>>
                    ELSE IF s[i] = "\n" THEN <<"<br>", "\n">>
                    ELSE <<EscapeHtml(s[i])>>]
  IN  Flatten(lexemes)

\* md.render(markdown)
MdRender(markdown) ==
  LET pars == GroupParagraphs(Split(markdown, "\n"), <<>>)
  IN  Flatten([k \in DOMAIN pars |->
                 <<"<p>">> \o RenderInline(ParagraphContent(pars[k]))
                           \o <<"</p>", "\n">>])

\* html.replace(/^<p>|<\/p>\n?$/g, "")
StripWrappingP(html) ==
  LET n == Len(html)
      end == IF n >= 2 /\ html[n] = "\n" /\ html[n - 1] = "</p>" THEN n - 2
             ELSE IF n >= 1 /\ html[n] = "</p>" THEN n - 1
             ELSE n
      start == IF n >= 1 /\ html[1] = "<p>" THEN 2 ELSE 1
  IN  SubSeq(html, start, end)

markdownToAnkiHtml(markdown) == Trim(StripWrappingP(MdRender(markdown)))

\* The string a rendered text is: its pieces, character by character.
Serialize(html) == Flatten([i \in DOMAIN html |-> Chars(html[i])])

(***************************************************************************)
(* JavaScript values the code tests with typeof, <= and ===.  A number is  *)
(* kept in halves, so that 1.5 is a number that is no integer.             *)
(***************************************************************************)
Num(halves) == [type |-> "number", nan |-> FALSE, halves |-> halves]
Whole(n)    == Num(2 * n)
NaN         == [type |-> "number", nan |-> TRUE, halves |-> 0]
Str(n)      == [type |-> "string", nan |-> FALSE, halves |-> 2 * n]

TypeOf(v)            == v.type
LessOrEqualZero(v)   == ~v.nan /\ v.halves <= 0
StrictEquals(v, w)   == v.type = w.type /\ ~v.nan /\ ~w.nan /\ v.halves = w.halves
IsPositiveInteger(v) ==
  v.type = "number" /\ ~v.nan /\ v.halves > 0 /\ v.halves % 2 = 0

(***************************************************************************)
(* storage.ts: the deck configurations, one JSON text under one key.       *)
(***************************************************************************)
DeckConfiguration(id, name, type) ==
  [deckId        |-> Whole(id),
   deckName      |-> name,
   purpose       |-> "vocabulary",
   noteType      |-> type,
   frontTemplate |-> "word",
   backTemplate  |-> "meaning",
   frontExample  |-> "hablar",
   backExample   |-> "to speak"]

SpanishVocab == DeckConfiguration(1, "Spanish::Vocab", "Basic")
SpanishWords == DeckConfiguration(1, "Spanish::Words", "Basic (and reversed card)")
JapaneseVocab == DeckConfiguration(2, "Japanese::Vocabulary", "Basic (and reversed card)")

Presets == {SpanishVocab, SpanishWords, JapaneseVocab}

\* LocalStorage.getItem of a key never set resolves to undefined.
NoItem == [present |-> FALSE, json |-> <<>>]

JSONStringify(configurations) == [present |-> TRUE, json |-> configurations]
JSONParse(data) == data.json

\* getDeckConfigurations, given the item LocalStorage holds.
getDeckConfigurations(item) ==
  IF ~item.present THEN <<>> ELSE JSONParse(item)

\* saveDeckConfigurations: the item LocalStorage holds afterwards.
saveDeckConfigurations(configurations) == JSONStringify(configurations)

\* Array.prototype.filter with (c) => c.deckId !== deckId
RECURSIVE FilterOut(_, _)
FilterOut(configurations, deckId) ==
  IF configurations = <<>> THEN <<>>
  ELSE IF StrictEquals(configurations[1].deckId, deckId)
    THEN FilterOut(Tail(configurations), deckId)
    ELSE <<configurations[1]>> \o FilterOut(Tail(configurations), deckId)

\* Array.prototype.find with (c) => c.deckId === deckId: the index of the
\* first match, 0 for undefined.
FindIndex(configurations, deckId) ==
  IF \E i \in DOMAIN configurations :
       StrictEquals(configurations[i].deckId, deckId)
    THEN CHOOSE i \in DOMAIN configurations :
           /\ StrictEquals(configurations[i].deckId, deckId)
           /\ \A j \in 1..(i - 1) :
                ~StrictEquals(configurations[j].deckId, deckId)
    ELSE 0

(***************************************************************************)
(* ankiConnect.ts: one JSON exchange with AnkiConnect.                     *)
(***************************************************************************)
AnkiConnectVersion == 6

\* The JSON null of the response's error field.
Null == "<null>"

\* What fetch and response.json() hand back for one request.  The result
\* is held as a sequence: a number as one element, an array as its items.
Response(rejected, ok, statusText, error, resultIsNull, result) ==
  [fetchRejected |-> rejected, ok |-> ok, statusText |-> statusText,
   error |-> error, resultIsNull |-> resultIsNull, result |-> result]

FetchRejected     == Response(TRUE, FALSE, "", Null, TRUE, <<>>)
HttpError         == Response(FALSE, FALSE, "Internal Server Error", Null, TRUE, <<>>)
ActionError(msg)  == Response(FALSE, TRUE, "OK", msg, TRUE, <<>>)
NullResult        == Response(FALSE, TRUE, "OK", Null, TRUE, <<>>)
Success(result)   == Response(FALSE, TRUE, "OK", Null, FALSE, result)

\* if (data.error): null and the empty string are falsy.
Truthy(text) == text # Null /\ text # ""

Returned(value) == [threw |-> FALSE, message |-> <<>>, value |-> value]
Threw(message)  == [threw |-> TRUE, message |-> message, value |-> <<>>]

\* invokeAnkiConnect, given the response the request gets.
invokeAnkiConnect(response) ==
  IF response.fetchRejected THEN Threw(<<"fetch failed">>)
  ELSE IF ~response.ok
    THEN Threw(<<"AnkiConnect request failed: ", response.statusText>>)
  ELSE IF Truthy(response.error) THEN Threw(<<response.error>>)
  ELSE IF response.resultIsNull
    THEN Threw(<<"AnkiConnect returned null result">>)
  ELSE Returned(response.result)

\* checkAnkiConnection
checkAnkiConnection(response) == ~invokeAnkiConnect(response).threw

\* The typed operations: the action each sends to invokeAnkiConnect.
Operations ==
  {"deckNamesAndIds", "addNote", "findNotes", "notesInfo", "updateNoteFields",
   "modelNames", "modelFieldNames"}

\* updateNoteFields: Promise<void>, the value invokeAnkiConnect returns is
\* dropped.
updateNoteFields(response) ==
  LET reply == invokeAnkiConnect(response)
  IN  IF reply.threw THEN reply ELSE Returned(<<>>)

\* What a typed operation hands its caller, given the response.
TypedOperation(operation, response) ==
  IF operation = "updateNoteFields" THEN updateNoteFields(response)
  ELSE invokeAnkiConnect(response)

\* Mutant of AddNoteParams: the peer's duplicate guard is switched off.
AddNoteParamsAllowDuplicate(deckName, modelName, fields, tags) ==
  [deckName |-> deckName, modelName |-> modelName, fields |-> fields,
   tags |-> tags, options |-> [allowDuplicate |-> TRUE]]

\* The request body of addNote.
AddNoteParams(deckName, modelName, fields, tags) ==
  [deckName |-> deckName, modelName |-> modelName, fields |-> fields,
   tags |-> tags, options |-> [allowDuplicate |-> FALSE]]

(***************************************************************************)
(* The peer: Anki's collection behind AnkiConnect.                         *)
(***************************************************************************)
MaxPeerNotes == 2

\* Notes the collection holds before the run.
ExistingNote(i) ==
  [noteId    |-> i,
   deckName  |-> "Spanish::Vocab",
   modelName |-> "Basic",
   fields    |-> [Front |-> IF i % 2 = 1 THEN <<"a">>
                            ELSE <<"<em>", "a", "</em>">>,
                  Back  |-> <<"b">>],
   tags      |-> <<>>]

NoteIds(notes) == {n.noteId : n \in notes}

\* The id the peer gives the next note.
NewNoteId(notes) ==
  1 + (IF notes = {} THEN 0
       ELSE CHOOSE m \in NoteIds(notes) : \A k \in NoteIds(notes) : k <= m)

\* The peer's duplicate guard (options.allowDuplicate: false): a note of
\* the same model with the same first field exists.
IsDuplicate(notes, params) ==
  /\ ~params.options.allowDuplicate
  /\ \E n \in notes : /\ n.modelName = params.modelName
                      /\ n.fields.Front = params.fields.Front

\* Ascending sequences of ids of some of the notes: what a search may match.
RECURSIVE Ascending(_)
Ascending(ids) ==
  IF ids = {} THEN <<>>
  ELSE LET m == CHOOSE k \in ids : \A j \in ids : k <= j
       IN  <<m>> \o Ascending(ids \ {m})

Failures == {FetchRejected, HttpError, NullResult}

VersionResponses ==
  Failures \cup {ActionError("unsupported action"), Success(<<AnkiConnectVersion>>)}

FindNotesResponses(notes) ==
  Failures \cup {ActionError("invalid query")}
           \cup {Success(Ascending(ids)) : ids \in SUBSET NoteIds(notes)}

\* notesInfo's entry for one note: noteId, modelName, tags and the fields
\* with their values, in field order.
NoteInfo(n) ==
  [noteId |-> n.noteId, modelName |-> n.modelName, tags |-> n.tags,
   fields |-> << [name |-> "Front", value |-> n.fields.Front, order |-> 0],
                 [name |-> "Back",  value |-> n.fields.Back,  order |-> 1] >>]

NoteWithId(notes, id) == CHOOSE n \in notes : n.noteId = id

NotesInfoResponses(notes, ids) ==
  Failures \cup {ActionError("collection is not available")}
           \cup {Success([i \in DOMAIN ids |-> NoteInfo(NoteWithId(notes, ids[i]))])}

\* addNote at the peer: the collection afterwards and the response.  A
\* note the peer has added may still be answered by a lost response.
AddNoteOutcomes(notes, params) ==
  LET id == NewNoteId(notes)
      note == [noteId |-> id, deckName |-> params.deckName,
               modelName |-> params.modelName, fields |-> params.fields,
               tags |-> params.tags]
      refusals ==
        Failures
          \cup {ActionError("model was not found")}
          \cup (IF IsDuplicate(notes, params)
                  THEN {ActionError("cannot create note because it is a duplicate")}
                  ELSE {})
  IN  {[notes |-> notes, response |-> r] : r \in refusals}
        \cup (IF IsDuplicate(notes, params) THEN {}
              ELSE {[notes |-> notes \cup {note}, response |-> r] :
                      r \in {Success(<<id>>), FetchRejected}})

(***************************************************************************)
(* add-card.ts: the tool's input, its locals and what it returns.          *)
(***************************************************************************)
DeckIds ==
  {Str(1), NaN, Num(-2), Num(0), Num(3), Whole(1), Whole(2), Whole(3)}

Contents ==
  { <<>>,
    <<" ", "\n">>,
    <<"a">>,
    <<"_", "a", "_">>,
    <<"a", "<", " ", "\n", "b">> }

BackContents == { <<>>, <<" ">>, <<"_", "b", "_">> }

\* input.tags: absent (or empty), or two tags.
TagInputs == { <<>>, <<"x", ",", " ", "y">> }

Inputs ==
  [deckId : DeckIds, Front : Contents, Back : BackContents, tags : TagInputs]

NoInput == [deckId |-> Num(0), Front |-> <<>>, Back |-> <<>>, tags |-> <<>>]

\* !value for a string: undefined and "" are falsy.
Falsy(text) == text = <<>>

\* input.tags ? input.tags.split(",").map((t) => t.trim()) : []
ParseTags(tags) ==
  IF Falsy(tags) THEN <<>>
  ELSE LET pieces == Split(tags, ",")
       IN  [i \in DOMAIN pieces |-> Trim(pieces[i])]

\* `deck:"${deckName}" ${input.Front}`
DuplicateQuery(deckName, front) == <<"deck:\"", deckName, "\" ">> \o front

\* existingCards: per note its id and its fields' names and values.
ExistingCards(duplicateInfo) ==
  [i \in DOMAIN duplicateInfo |->
     [noteId |-> duplicateInfo[i].noteId,
      fields |-> [k \in DOMAIN duplicateInfo[i].fields |->
                    [name  |-> duplicateInfo[i].fields[k].name,
                     value |-> duplicateInfo[i].fields[k].value]]]]

NoFields == [Front |-> <<>>, Back |-> <<>>]

\* Mutant of BuildFields: the raw Markdown is committed unrendered.
BuildFieldsRaw(in) == [Front |-> in.Front, Back |-> in.Back]

\* const fields = { Front: markdownToAnkiHtml(...), Back: ... }
BuildFields(in) ==
  [Front |-> markdownToAnkiHtml(in.Front), Back |-> markdownToAnkiHtml(in.Back)]

\* The string the tool returns, by the template that wrote it and the
\* values spliced into it.
NoResult ==
  [kind |-> "none", deckId |-> Num(0), deckName |-> "", noteType |-> "",
   noteId |-> 0, fields |-> NoFields, tags |-> <<>>, errorMessage |-> <<>>,
   duplicateCount |-> 0, existingCards |-> <<>>]

InvalidDeckId    == [NoResult EXCEPT !.kind = "invalidDeckId"]
FrontRequired    == [NoResult EXCEPT !.kind = "frontRequired"]
BackRequired     == [NoResult EXCEPT !.kind = "backRequired"]
CannotConnect    == [NoResult EXCEPT !.kind = "cannotConnect"]
NoConfigurations == [NoResult EXCEPT !.kind = "noConfigurations"]
NotConfigured(deckId) ==
  [NoResult EXCEPT !.kind = "notConfigured", !.deckId = deckId]
DuplicatesFound(count, cards) ==
  [NoResult EXCEPT !.kind = "duplicatesFound", !.duplicateCount = count,
                   !.existingCards = cards]
Created(configuration, noteId, fields, tags) ==
  [NoResult EXCEPT !.kind = "created", !.deckName = configuration.deckName,
                   !.noteType = configuration.noteType, !.noteId = noteId,
                   !.fields = fields, !.tags = tags]
CreateFailed(configuration, errorMessage) ==
  [NoResult EXCEPT !.kind = "createFailed", !.errorMessage = errorMessage,
                   !.deckName = configuration.deckName,
                   !.noteType = configuration.noteType]

\* Mutant of ConfirmationInfo: the prompt shows the rendered fields.
ConfirmationInfoRendered(configurations, in) ==
  LET idx      == FindIndex(configurations, in.deckId)
      deckName == IF idx # 0 THEN <<configurations[idx].deckName>>
                  ELSE <<"Deck ID ", in.deckId>>
      noteType == IF idx # 0 THEN <<configurations[idx].noteType>>
                  ELSE <<"Unknown">>
      tags     == ParseTags(in.tags)
  IN  << [name |-> "Deck", value |-> deckName],
         [name |-> "Note Type", value |-> noteType],
         [name |-> "Front", value |-> markdownToAnkiHtml(in.Front)],
         [name |-> "Back", value |-> markdownToAnkiHtml(in.Back)] >>
        \o (IF Len(tags) > 0
              THEN << [name |-> "Tags", value |-> Join(tags, <<",", " ">>)] >>
              ELSE <<>>)

\* The confirmation's info array.
ConfirmationInfo(configurations, in) ==
  LET idx      == FindIndex(configurations, in.deckId)
      deckName == IF idx # 0 THEN <<configurations[idx].deckName>>
                  ELSE <<"Deck ID ", in.deckId>>
      noteType == IF idx # 0 THEN <<configurations[idx].noteType>>
                  ELSE <<"Unknown">>
      tags     == ParseTags(in.tags)
  IN  << [name |-> "Deck", value |-> deckName],
         [name |-> "Note Type", value |-> noteType],
         [name |-> "Front", value |-> in.Front],
         [name |-> "Back", value |-> in.Back] >>
        \o (IF Len(tags) > 0
              THEN << [name |-> "Tags", value |-> Join(tags, <<",", " ">>)] >>
              ELSE <<>>)

(***************************************************************************)
(* State.                                                                  *)
(***************************************************************************)
VARIABLES
  storage,            \* LocalStorage's item under "deck-configurations"
  peerNotes,          \* the notes of the peer's collection
  editor,             \* each caller's pending store operation
  edits,              \* store operations the configuration command has done
  pc,                 \* where the workflow run stands
  input,              \* the input the assistant passed to add-card
  info,               \* the info array of the confirmation prompt
  decision,           \* what the user answered to the prompt
  configurations,     \* the tool's local: the configurations it read
  deckConfiguration,  \* the tool's local: <<>> for undefined, else <<c>>
  fields,             \* the tool's local: the note's fields
  tags,               \* the tool's local: the parsed tags
  duplicateIds,       \* the tool's local: what findNotes returned
  result,             \* what the tool returned
  calls               \* the store reads and peer requests of the run, in order

vars ==
  <<storage, peerNotes, editor, edits, pc, input, info, decision,
    configurations, deckConfiguration, fields, tags, duplicateIds, result,
    calls>>

storeVars == <<storage, editor, edits>>
toolLocals == <<configurations, deckConfiguration, fields, tags, duplicateIds>>
promptVars == <<input, info, decision>>

MaxEdits == 1

\* The handlers of the configuration command that may be in flight.
Editors == {1, 2}

\* What the configuration command may have left in the store before the run.
InitialStores ==
  { NoItem,
    saveDeckConfigurations(<<SpanishVocab>>),
    saveDeckConfigurations(<<SpanishVocab, JapaneseVocab>>) }

RemovableIds == {Whole(1), Whole(2)}

Idle == [op |-> "none", configuration |-> SpanishVocab, deckId |-> Num(0),
         configurations |-> <<>>]

\* One entry of the run's log of calls.
StoreRead(by, read) ==
  [by |-> by, op |-> "LocalStorage.getItem", action |-> "", params |-> <<>>,
   threw |-> FALSE, message |-> <<>>, value |-> read]
\* The message of a thrown error is kept where the tool binds the error and
\* puts its message into what it returns (catch (error) of the second try).
Request(action, params, reply) ==
  [by |-> "tool", op |-> "fetch", action |-> action, params |-> params,
   threw |-> reply.threw,
   message |-> IF action = "addNote" THEN reply.message ELSE <<>>,
   value |-> reply.value]

Init ==
  /\ storage \in InitialStores
  /\ peerNotes \in {{ExistingNote(i) : i \in 1..k} : k \in 0..MaxPeerNotes}
  /\ editor = [e \in Editors |-> Idle]
  /\ edits = 0
  /\ pc = "idle"
  /\ input = NoInput
  /\ info = <<>>
  /\ decision = "none"
  /\ configurations = <<>>
  /\ deckConfiguration = <<>>
  /\ fields = NoFields
  /\ tags = <<>>
  /\ duplicateIds = <<>>
  /\ result = NoResult
  /\ calls = <<>>

(***************************************************************************)
(* The configuration command's store operations (storage.ts), each a read  *)
(* and, after the await, a write of the whole list.  A caller is one       *)
(* handler of the command in flight; two handlers may be in flight at once.*)
(***************************************************************************)
addDeckConfigurationRead(e, configuration) ==
  /\ editor[e].op = "none"
  /\ editor' = [editor EXCEPT ![e] =
                  [op |-> "add", configuration |-> configuration,
                   deckId |-> configuration.deckId,
                   configurations |-> getDeckConfigurations(storage)]]
  /\ UNCHANGED <<storage, edits, peerNotes, pc, promptVars, toolLocals,
                 result, calls>>

\* Mutant of addDeckConfigurationSave: the configuration is appended to
\* the list as read, nothing filtered out.
addDeckConfigurationSaveAppends(e) ==
  /\ editor[e].op = "add"
  /\ storage' = saveDeckConfigurations(
                  Append(editor[e].configurations, editor[e].configuration))
  /\ editor' = [editor EXCEPT ![e] = Idle]
  /\ edits' = edits + 1
  /\ UNCHANGED <<peerNotes, pc, promptVars, toolLocals, result, calls>>

\* Mutant of addDeckConfigurationSave: a configuration of a deck id that
\* is in the list takes the place of the old one.
addDeckConfigurationSaveInPlace(e) ==
  /\ editor[e].op = "add"
  /\ LET list == editor[e].configurations
         idx  == FindIndex(list, editor[e].deckId)
     IN  storage' = saveDeckConfigurations(
                      IF idx # 0
                        THEN [list EXCEPT ![idx] = editor[e].configuration]
                        ELSE Append(list, editor[e].configuration))
  /\ editor' = [editor EXCEPT ![e] = Idle]
  /\ edits' = edits + 1
  /\ UNCHANGED <<peerNotes, pc, promptVars, toolLocals, result, calls>>

addDeckConfigurationSave(e) ==
  /\ editor[e].op = "add"
  /\ storage' = saveDeckConfigurations(
                  Append(FilterOut(editor[e].configurations, editor[e].deckId),
                         editor[e].configuration))
  /\ editor' = [editor EXCEPT ![e] = Idle]
  /\ edits' = edits + 1
  /\ UNCHANGED <<peerNotes, pc, promptVars, toolLocals, result, calls>>

\* Mutant of removeDeckConfigurationSave: the list is read again at the
\* write, so the operation is atomic.
removeDeckConfigurationSaveAtomic(e) ==
  /\ editor[e].op = "remove"
  /\ storage' = saveDeckConfigurations(
                  FilterOut(getDeckConfigurations(storage), editor[e].deckId))
  /\ editor' = [editor EXCEPT ![e] = Idle]
  /\ edits' = edits + 1
  /\ UNCHANGED <<peerNotes, pc, promptVars, toolLocals, result, calls>>

removeDeckConfigurationRead(e, deckId) ==
  /\ editor[e].op = "none"
  /\ editor' = [editor EXCEPT ![e] =
                  [op |-> "remove", configuration |-> SpanishVocab,
                   deckId |-> deckId,
                   configurations |-> getDeckConfigurations(storage)]]
  /\ UNCHANGED <<storage, edits, peerNotes, pc, promptVars, toolLocals,
                 result, calls>>

removeDeckConfigurationSave(e) ==
  /\ editor[e].op = "remove"
  /\ storage' = saveDeckConfigurations(
                  FilterOut(editor[e].configurations, editor[e].deckId))
  /\ editor' = [editor EXCEPT ![e] = Idle]
  /\ edits' = edits + 1
  /\ UNCHANGED <<peerNotes, pc, promptVars, toolLocals, result, calls>>

(***************************************************************************)
(* The workflow run: the host calls confirmation(input), shows the prompt, *)
(* and calls tool(input) once the user has confirmed.                      *)
(***************************************************************************)
\* return <string>: the tool's run ends.
Return(r) ==
  /\ result' = r
  /\ pc' = "done"

\* Mutant of Confirmation: the list the prompt was built from is saved back.
ConfirmationSavesList(in) ==
  /\ pc = "idle"
  /\ input' = in
  /\ info' = ConfirmationInfo(getDeckConfigurations(storage), in)
  /\ calls' = Append(calls, StoreRead("confirmation",
                                      getDeckConfigurations(storage)))
  /\ storage' = saveDeckConfigurations(getDeckConfigurations(storage))
  /\ pc' = "awaitingConfirmation"
  /\ UNCHANGED <<editor, edits, peerNotes, decision, toolLocals, result>>

\* confirmation(input)
Confirmation(in) ==
  /\ pc = "idle"
  /\ input' = in
  /\ info' = ConfirmationInfo(getDeckConfigurations(storage), in)
  /\ calls' = Append(calls, StoreRead("confirmation",
                                      getDeckConfigurations(storage)))
  /\ pc' = "awaitingConfirmation"
  /\ UNCHANGED <<storeVars, peerNotes, decision, toolLocals, result>>

Approvals == {"approve-create", "approve-update"}
Decisions == Approvals \cup {"cancel"}

\* Mutant of Decide: the tool is called whatever the user answered.
DecideRunsToolAnyway(d) ==
  /\ pc = "awaitingConfirmation"
  /\ decision' = d
  /\ pc' = "tool"
  /\ UNCHANGED <<storeVars, peerNotes, input, info, toolLocals, result, calls>>

\* The user answers the prompt.  The prompt has a confirm and a cancel
\* button: whichever entry the user means to approve, the tool is called
\* with the same input.
Decide(d) ==
  /\ pc = "awaitingConfirmation"
  /\ decision' = d
  /\ pc' = IF d \in Approvals THEN "tool" ELSE "done"
  /\ UNCHANGED <<storeVars, peerNotes, input, info, toolLocals, result, calls>>

\* Mutant of Validate: the Back field is not checked.
ValidateFrontOnly ==
  /\ pc = "tool"
  /\ IF TypeOf(input.deckId) # "number" \/ LessOrEqualZero(input.deckId)
       THEN Return(InvalidDeckId)
     ELSE IF Falsy(input.Front) \/ Trim(input.Front) = <<>>
       THEN Return(FrontRequired)
     ELSE /\ pc' = "checkAnkiConnection"
          /\ UNCHANGED result
  /\ UNCHANGED <<storeVars, peerNotes, promptVars, toolLocals, calls>>

\* tool(input), up to its first await: the runtime validation.
Validate ==
  /\ pc = "tool"
  /\ IF TypeOf(input.deckId) # "number" \/ LessOrEqualZero(input.deckId)
       THEN Return(InvalidDeckId)
     ELSE IF Falsy(input.Front) \/ Trim(input.Front) = <<>>
       THEN Return(FrontRequired)
     ELSE IF Falsy(input.Back) \/ Trim(input.Back) = <<>>
       THEN Return(BackRequired)
     ELSE /\ pc' = "checkAnkiConnection"
          /\ UNCHANGED result
  /\ UNCHANGED <<storeVars, peerNotes, promptVars, toolLocals, calls>>

\* Mutant of CheckConnection: an answer with a success status counts as a
\* peer that is there, whatever its error and result fields say.
CheckConnectionTrustsStatus(response) ==
  /\ pc = "checkAnkiConnection"
  /\ calls' = Append(calls, Request("version", <<>>, invokeAnkiConnect(response)))
  /\ IF response.fetchRejected \/ ~response.ok
       THEN Return(CannotConnect)
       ELSE /\ pc' = "getDeckConfigurations"
            /\ UNCHANGED result
  /\ UNCHANGED <<storeVars, peerNotes, promptVars, toolLocals>>

\* Mutant of CheckConnection: the run goes on whatever the probe gave.
CheckConnectionIgnored(response) ==
  /\ pc = "checkAnkiConnection"
  /\ calls' = Append(calls, Request("version", <<>>, invokeAnkiConnect(response)))
  /\ pc' = "getDeckConfigurations"
  /\ UNCHANGED <<storeVars, peerNotes, promptVars, toolLocals, result>>

\* await checkAnkiConnection()
CheckConnection(response) ==
  /\ pc = "checkAnkiConnection"
  /\ calls' = Append(calls, Request("version", <<>>, invokeAnkiConnect(response)))
  /\ IF ~checkAnkiConnection(response)
       THEN Return(CannotConnect)
       ELSE /\ pc' = "getDeckConfigurations"
            /\ UNCHANGED result
  /\ UNCHANGED <<storeVars, peerNotes, promptVars, toolLocals>>

\* Mutant of ResolveDeck: a deck id that is not configured falls back to
\* the first configuration.
ResolveDeckFallback ==
  /\ pc = "getDeckConfigurations"
  /\ LET read == getDeckConfigurations(storage)
         idx  == FindIndex(read, input.deckId)
     IN  /\ calls' = Append(calls, StoreRead("tool", read))
         /\ configurations' = read
         /\ IF Len(read) = 0
              THEN /\ Return(NoConfigurations)
                   /\ UNCHANGED <<deckConfiguration, fields, tags>>
            ELSE /\ deckConfiguration' = <<read[IF idx = 0 THEN 1 ELSE idx]>>
                 /\ fields' = BuildFields(input)
                 /\ tags' = ParseTags(input.tags)
                 /\ pc' = "findNotes"
                 /\ UNCHANGED result
  /\ UNCHANGED <<storeVars, peerNotes, promptVars, duplicateIds>>

\* Mutant of ResolveDeck: the deck is looked up before the list is tested
\* for being empty.
ResolveDeckLookupFirst ==
  /\ pc = "getDeckConfigurations"
  /\ LET read == getDeckConfigurations(storage)
         idx  == FindIndex(read, input.deckId)
     IN  /\ calls' = Append(calls, StoreRead("tool", read))
         /\ configurations' = read
         /\ IF idx = 0
              THEN /\ Return(NotConfigured(input.deckId))
                   /\ UNCHANGED <<deckConfiguration, fields, tags>>
            ELSE /\ deckConfiguration' = <<read[idx]>>
                 /\ fields' = BuildFields(input)
                 /\ tags' = ParseTags(input.tags)
                 /\ pc' = "findNotes"
                 /\ UNCHANGED result
  /\ UNCHANGED <<storeVars, peerNotes, promptVars, duplicateIds>>

\* await getDeckConfigurations(), the lookup of the deck, fields and tags
ResolveDeck ==
  /\ pc = "getDeckConfigurations"
  /\ LET read == getDeckConfigurations(storage)
         idx  == FindIndex(read, input.deckId)
     IN  /\ calls' = Append(calls, StoreRead("tool", read))
         /\ configurations' = read
         /\ IF Len(read) = 0
              THEN /\ Return(NoConfigurations)
                   /\ UNCHANGED <<deckConfiguration, fields, tags>>
            ELSE IF idx = 0
              THEN /\ Return(NotConfigured(input.deckId))
                   /\ UNCHANGED <<deckConfiguration, fields, tags>>
            ELSE /\ deckConfiguration' = <<read[idx]>>
                 /\ fields' = BuildFields(input)
                 /\ tags' = ParseTags(input.tags)
                 /\ pc' = "findNotes"
                 /\ UNCHANGED result
  /\ UNCHANGED <<storeVars, peerNotes, promptVars, duplicateIds>>

\* Mutant of FindNotes: a failed search is not caught and ends the run.
FindNotesAborts(response) ==
  /\ pc = "findNotes"
  /\ LET reply == invokeAnkiConnect(response)
     IN  /\ calls' = Append(calls,
                       Request("findNotes",
                               <<DuplicateQuery(deckConfiguration[1].deckName,
                                                input.Front)>>,
                               reply))
         /\ IF reply.threw
              THEN /\ Return(CreateFailed(deckConfiguration[1], reply.message))
                   /\ UNCHANGED duplicateIds
              ELSE /\ duplicateIds' = reply.value
                   /\ pc' = IF Len(reply.value) > 0 THEN "notesInfo"
                            ELSE "addNote"
                   /\ UNCHANGED result
  /\ UNCHANGED <<storeVars, peerNotes, promptVars, configurations,
                 deckConfiguration, fields, tags>>

\* Mutant of FindNotes: the search is made with the rendered front.
FindNotesNormalizedFront(response) ==
  /\ pc = "findNotes"
  /\ LET reply == invokeAnkiConnect(response)
     IN  /\ calls' = Append(calls,
                       Request("findNotes",
                               <<DuplicateQuery(deckConfiguration[1].deckName,
                                                Serialize(fields.Front))>>,
                               reply))
         /\ IF reply.threw
              THEN /\ pc' = "addNote"
                   /\ UNCHANGED duplicateIds
              ELSE /\ duplicateIds' = reply.value
                   /\ pc' = IF Len(reply.value) > 0 THEN "notesInfo"
                            ELSE "addNote"
  /\ UNCHANGED <<storeVars, peerNotes, promptVars, configurations,
                 deckConfiguration, fields, tags, result>>

\* await findNotes(...), inside the try
FindNotes(response) ==
  /\ pc = "findNotes"
  /\ LET reply == invokeAnkiConnect(response)
     IN  /\ calls' = Append(calls,
                       Request("findNotes",
                               <<DuplicateQuery(deckConfiguration[1].deckName,
                                                input.Front)>>,
                               reply))
         /\ IF reply.threw
              THEN /\ pc' = "addNote"
                   /\ UNCHANGED duplicateIds
              ELSE /\ duplicateIds' = reply.value
                   /\ pc' = IF Len(reply.value) > 0 THEN "notesInfo"
                            ELSE "addNote"
  /\ UNCHANGED <<storeVars, peerNotes, promptVars, configurations,
                 deckConfiguration, fields, tags, result>>

\* Mutant of NotesInfo: the run goes on to the create although the detail
\* lookup returned the candidates.
NotesInfoCreatesAnyway(response) ==
  /\ pc = "notesInfo"
  /\ LET reply == invokeAnkiConnect(response)
     IN  calls' = Append(calls, Request("notesInfo", <<duplicateIds>>, reply))
  /\ pc' = "addNote"
  /\ UNCHANGED <<storeVars, peerNotes, promptVars, toolLocals, result>>

\* await notesInfo(duplicateIds), inside the try
NotesInfo(response) ==
  /\ pc = "notesInfo"
  /\ LET reply == invokeAnkiConnect(response)
     IN  /\ calls' = Append(calls, Request("notesInfo", <<duplicateIds>>, reply))
         /\ IF reply.threw
              THEN /\ pc' = "addNote"
                   /\ UNCHANGED result
              ELSE Return(DuplicatesFound(Len(duplicateIds),
                                          ExistingCards(reply.value)))
  /\ UNCHANGED <<storeVars, peerNotes, promptVars, toolLocals>>

\* Mutant of AddNote: the success message is returned although addNote threw.
AddNoteReportsSuccess ==
  /\ pc = "addNote"
  /\ LET params == AddNoteParams(deckConfiguration[1].deckName,
                                 deckConfiguration[1].noteType, fields, tags)
     IN  \E outcome \in AddNoteOutcomes(peerNotes, params) :
           LET reply == invokeAnkiConnect(outcome.response)
           IN  /\ calls' = Append(calls, Request("addNote", <<params>>, reply))
               /\ peerNotes' = outcome.notes
               /\ Return(Created(deckConfiguration[1],
                                 IF reply.threw THEN 0 ELSE reply.value[1],
                                 fields, tags))
  /\ UNCHANGED <<storeVars, promptVars, toolLocals>>

\* Mutant of AddNote: a create that threw is sent once more.
AddNoteRetries ==
  /\ pc = "addNote"
  /\ LET params == AddNoteParams(deckConfiguration[1].deckName,
                                 deckConfiguration[1].noteType, fields, tags)
     IN  \E outcome \in AddNoteOutcomes(peerNotes, params) :
           LET reply == invokeAnkiConnect(outcome.response)
           IN  /\ calls' = Append(calls, Request("addNote", <<params>>, reply))
               /\ peerNotes' = outcome.notes
               /\ IF reply.threw /\ (\A i \in DOMAIN calls :
                                        calls[i].action # "addNote")
                    THEN UNCHANGED <<pc, result>>
                    ELSE IF reply.threw
                      THEN Return(CreateFailed(deckConfiguration[1],
                                               reply.message))
                      ELSE Return(Created(deckConfiguration[1],
                                          reply.value[1], fields, tags))
  /\ UNCHANGED <<storeVars, promptVars, toolLocals>>

\* Mutant of AddNote: the failure message does not carry the caught error's
\* message.
AddNoteGenericMessage ==
  /\ pc = "addNote"
  /\ LET params == AddNoteParams(deckConfiguration[1].deckName,
                                 deckConfiguration[1].noteType, fields, tags)
     IN  \E outcome \in AddNoteOutcomes(peerNotes, params) :
           LET reply == invokeAnkiConnect(outcome.response)
           IN  /\ calls' = Append(calls, Request("addNote", <<params>>, reply))
               /\ peerNotes' = outcome.notes
               /\ IF reply.threw
                    THEN Return(CreateFailed(deckConfiguration[1],
                                             <<"Unknown error">>))
                    ELSE Return(Created(deckConfiguration[1], reply.value[1],
                                        fields, tags))
  /\ UNCHANGED <<storeVars, promptVars, toolLocals>>

\* await addNote(...), inside the second try
AddNote ==
  /\ pc = "addNote"
  /\ LET params == AddNoteParams(deckConfiguration[1].deckName,
                                 deckConfiguration[1].noteType, fields, tags)
     IN  \E outcome \in AddNoteOutcomes(peerNotes, params) :
           LET reply == invokeAnkiConnect(outcome.response)
           IN  /\ calls' = Append(calls, Request("addNote", <<params>>, reply))
               /\ peerNotes' = outcome.notes
               /\ IF reply.threw
                    THEN Return(CreateFailed(deckConfiguration[1],
                                             reply.message))
                    ELSE Return(Created(deckConfiguration[1], reply.value[1],
                                        fields, tags))
  /\ UNCHANGED <<storeVars, promptVars, toolLocals>>

Next ==
  \/ \E c \in Presets : edits < MaxEdits /\ addDeckConfigurationRead(1, c)
  \/ addDeckConfigurationSave(1)
  \/ \E d \in RemovableIds : edits < MaxEdits /\ removeDeckConfigurationRead(1, d)
  \/ removeDeckConfigurationSave(1)
  \/ \E in \in Inputs : Confirmation(in)
  \/ \E d \in Decisions : Decide(d)
  \/ Validate
  \/ \E r \in VersionResponses : CheckConnection(r)
  \/ ResolveDeck
  \/ \E r \in FindNotesResponses(peerNotes) : FindNotes(r)
  \/ \E r \in NotesInfoResponses(peerNotes, duplicateIds) : NotesInfo(r)
  \/ AddNote

Spec == Init /\ [][Next]_vars

(***************************************************************************)
(* Two runs at once.  A second run of the tool, given the same input and   *)
(* having found the same configuration, sends its addNote while the first  *)
(* run is anywhere between its lookup of the deck and its end.  What the   *)
(* second run is answered is logged with the first run's calls.            *)
(***************************************************************************)
ConcurrentRun == "concurrent run"

ConcurrentAddNote ==
  /\ pc \in {"findNotes", "notesInfo", "addNote", "done"}
  /\ deckConfiguration # <<>>
  /\ \A i \in DOMAIN calls : calls[i].by # ConcurrentRun
  /\ LET params == AddNoteParams(deckConfiguration[1].deckName,
                                 deckConfiguration[1].noteType, fields, tags)
     IN  \E outcome \in AddNoteOutcomes(peerNotes, params) :
           LET reply == invokeAnkiConnect(outcome.response)
           IN  /\ calls' = Append(calls,
                              [Request("addNote", <<params>>, reply)
                                 EXCEPT !.by = ConcurrentRun])
               /\ peerNotes' = outcome.notes
  /\ UNCHANGED <<storeVars, pc, promptVars, toolLocals, result>>

RaceNext ==
  \/ \E in \in Inputs : Confirmation(in)
  \/ \E d \in Decisions : Decide(d)
  \/ Validate
  \/ \E r \in VersionResponses : CheckConnection(r)
  \/ ResolveDeck
  \/ \E r \in FindNotesResponses(peerNotes) : FindNotes(r)
  \/ \E r \in NotesInfoResponses(peerNotes, duplicateIds) : NotesInfo(r)
  \/ AddNote
  \/ ConcurrentAddNote

RaceSpec == Init /\ [][RaceNext]_vars

(***************************************************************************)
(* get-deck-configurations.ts, and the assistant's three operations next   *)
(* to the configuration command: the assistant calls get-deck-             *)
(* configurations, then add-card, whose prompt the host shows first.       *)
(***************************************************************************)
NoDecksError ==
  [error |-> "No deck configurations found. Please ask the user to run the 'Configure Anki Decks' command to set up their decks first."]

\* configurations.map((configuration) => ({ deckId: ..., ... }))
DecksResult(read) ==
  [decks |-> [i \in DOMAIN read |->
                [deckId        |-> read[i].deckId,
                 deckName      |-> read[i].deckName,
                 purpose       |-> read[i].purpose,
                 noteType      |-> read[i].noteType,
                 frontTemplate |-> read[i].frontTemplate,
                 frontExample  |-> read[i].frontExample,
                 backTemplate  |-> read[i].backTemplate,
                 backExample   |-> read[i].backExample]],
   instructions |-> "Select the appropriate deck ID based on the user's content and the deck's purpose. Use the templates and examples as guidelines for formatting card fields."]

Discovery == "get-deck-configurations"

\* Mutant of getDeckConfigurationsTool: only the first configuration is
\* listed.
getDeckConfigurationsToolFirstOnly ==
  /\ pc = "idle"
  /\ result = NoResult
  /\ LET read == getDeckConfigurations(storage)
     IN  /\ calls' = Append(calls, StoreRead(Discovery, read))
         /\ result' = IF Len(read) = 0 THEN JSONStringify(NoDecksError)
                      ELSE JSONStringify(DecksResult(<<read[1]>>))
  /\ UNCHANGED <<storeVars, peerNotes, pc, promptVars, toolLocals>>

\* tool() of get-deck-configurations
getDeckConfigurationsTool ==
  /\ pc = "idle"
  /\ result = NoResult
  /\ LET read == getDeckConfigurations(storage)
     IN  /\ calls' = Append(calls, StoreRead(Discovery, read))
         /\ result' = IF Len(read) = 0 THEN JSONStringify(NoDecksError)
                      ELSE JSONStringify(DecksResult(read))
  /\ UNCHANGED <<storeVars, peerNotes, pc, promptVars, toolLocals>>

\* Inputs of add-card that between them reach each of its returns.
SampleInputs ==
  {in \in Inputs : /\ in.deckId \in {Num(0), Whole(1), Whole(3)}
                   /\ in.Front \in {<<>>, <<"a">>}
                   /\ in.Back = <<"_", "b", "_">>
                   /\ in.tags = <<>>}

AssistantNext ==
  \/ \E c \in Presets : edits < MaxEdits /\ addDeckConfigurationRead(1, c)
  \/ addDeckConfigurationSave(1)
  \/ \E d \in RemovableIds : edits < MaxEdits /\ removeDeckConfigurationRead(1, d)
  \/ removeDeckConfigurationSave(1)
  \/ getDeckConfigurationsTool
  \/ \E in \in SampleInputs : Confirmation(in)
  \/ \E d \in Decisions : Decide(d)
  \/ Validate
  \/ \E r \in VersionResponses : CheckConnection(r)
  \/ ResolveDeck
  \/ \E r \in FindNotesResponses(peerNotes) : FindNotes(r)
  \/ \E r \in NotesInfoResponses(peerNotes, duplicateIds) : NotesInfo(r)
  \/ AddNote

AssistantSpec == Init /\ [][AssistantNext]_vars

(***************************************************************************)
(* A run against a store whose read may fail.  LocalStorage.getItem is a   *)
(* promise, which may reject, and the tool awaits getDeckConfigurations()  *)
(* outside its two try blocks: the rejection is the tool's own.           *)
(***************************************************************************)
ResolveDeckReadRejects ==
  /\ pc = "getDeckConfigurations"
  /\ calls' = Append(calls, [StoreRead("tool", <<>>) EXCEPT !.threw = TRUE])
  /\ pc' = "threw"
  /\ UNCHANGED <<storeVars, peerNotes, promptVars, toolLocals, result>>

FallibleStoreNext ==
  \/ \E in \in SampleInputs : Confirmation(in)
  \/ \E d \in Decisions : Decide(d)
  \/ Validate
  \/ \E r \in VersionResponses : CheckConnection(r)
  \/ ResolveDeck
  \/ ResolveDeckReadRejects
  \/ \E r \in FindNotesResponses(peerNotes) : FindNotes(r)
  \/ \E r \in NotesInfoResponses(peerNotes, duplicateIds) : NotesInfo(r)
  \/ AddNote

FallibleStoreSpec == Init /\ [][FallibleStoreNext]_vars

(***************************************************************************)
(* configure-decks.tsx: the edit form's handleSubmit.  input holds the     *)
(* form's values as the configuration to store, deckConfiguration the      *)
(* configuration the form was opened for, configurations the list the      *)
(* store function in flight has read.  A LocalStorage call may reject.     *)
(***************************************************************************)
EditValues == Presets \cup {DeckConfiguration(3, "French::Vocab", "Basic")}

ConfigurationUpdated == [NoResult EXCEPT !.kind = "configurationUpdated"]
UpdateFailed == [NoResult EXCEPT !.kind = "updateFailed"]

\* handleSubmit(values), up to its first await
EditSubmit(configuration, values) ==
  /\ pc = "idle"
  /\ \E i \in DOMAIN getDeckConfigurations(storage) :
       getDeckConfigurations(storage)[i] = configuration
  /\ input' = values
  /\ deckConfiguration' = <<configuration>>
  /\ pc' = IF ~StrictEquals(values.deckId, configuration.deckId)
             THEN "removeDeckConfiguration"
             ELSE "addDeckConfiguration"
  /\ UNCHANGED <<storeVars, peerNotes, info, decision, configurations,
                 fields, tags, duplicateIds, result, calls>>

\* catch (error): the failure toast; nothing is put back.
EditCatch ==
  /\ result' = UpdateFailed
  /\ pc' = "done"

\* removeDeckConfiguration: const configurations = await getDeckConfigurations()
EditRemoveRead(rejects) ==
  /\ pc = "removeDeckConfiguration"
  /\ IF rejects
       THEN EditCatch /\ UNCHANGED configurations
       ELSE /\ configurations' = getDeckConfigurations(storage)
            /\ pc' = "removeDeckConfiguration: save"
            /\ UNCHANGED result
  /\ UNCHANGED <<storeVars, peerNotes, promptVars, deckConfiguration,
                 fields, tags, duplicateIds, calls>>

\* removeDeckConfiguration: await saveDeckConfigurations(filtered)
EditRemoveSave(rejects) ==
  /\ pc = "removeDeckConfiguration: save"
  /\ IF rejects
       THEN EditCatch /\ UNCHANGED storage
       ELSE /\ storage' = saveDeckConfigurations(
                            FilterOut(configurations,
                                      deckConfiguration[1].deckId))
            /\ pc' = "addDeckConfiguration"
            /\ UNCHANGED result
  /\ UNCHANGED <<editor, edits, peerNotes, promptVars, toolLocals, calls>>

\* addDeckConfiguration: const configurations = await getDeckConfigurations()
EditAddRead(rejects) ==
  /\ pc = "addDeckConfiguration"
  /\ IF rejects
       THEN EditCatch /\ UNCHANGED configurations
       ELSE /\ configurations' = getDeckConfigurations(storage)
            /\ pc' = "addDeckConfiguration: save"
            /\ UNCHANGED result
  /\ UNCHANGED <<storeVars, peerNotes, promptVars, deckConfiguration,
                 fields, tags, duplicateIds, calls>>

\* addDeckConfiguration: await saveDeckConfigurations(filtered), and the
\* success toast after it.
EditAddSave(rejects) ==
  /\ pc = "addDeckConfiguration: save"
  /\ IF rejects
       THEN EditCatch /\ UNCHANGED storage
       ELSE /\ storage' = saveDeckConfigurations(
                            Append(FilterOut(configurations, input.deckId),
                                   input))
            /\ result' = ConfigurationUpdated
            /\ pc' = "done"
  /\ UNCHANGED <<editor, edits, peerNotes, promptVars, toolLocals, calls>>

EditNext ==
  \/ \E configuration \in Presets, values \in EditValues :
       EditSubmit(configuration, values)
  \/ \E rejects \in BOOLEAN : EditRemoveRead(rejects)
  \/ \E rejects \in BOOLEAN : EditRemoveSave(rejects)
  \/ \E rejects \in BOOLEAN : EditAddRead(rejects)
  \/ \E rejects \in BOOLEAN : EditAddSave(rejects)

EditSpec == Init /\ [][EditNext]_vars

(***************************************************************************)
(* markdownToAnkiHtml on its own: a text is rendered, and what came out is *)
(* rendered again.                                                         *)
(***************************************************************************)
MaxTextLen == 3

RECURSIVE TextsOver(_, _)
TextsOver(alphabet, n) ==
  IF n = 0 THEN {<<>>}
  ELSE LET shorter == TextsOver(alphabet, n - 1)
       IN  shorter \cup {Append(t, c) : t \in shorter, c \in alphabet}

RawTexts ==
  {t \in TextsOver({"a", " ", "\n", "_", "<"}, MaxTextLen) : MarkdownFragment(t)}

\* fields.Front holds the rendered text, fields.Back the text rendered twice.
Render(text) ==
  /\ pc = "idle"
  /\ input' = [NoInput EXCEPT !.Front = text]
  /\ fields' = [NoFields EXCEPT !.Front = markdownToAnkiHtml(text)]
  /\ pc' = "rendered"
  /\ UNCHANGED <<storeVars, peerNotes, info, decision, configurations,
                 deckConfiguration, tags, duplicateIds, result, calls>>

RenderAgain ==
  /\ pc = "rendered"
  /\ fields' = [fields EXCEPT
                  !.Back = markdownToAnkiHtml(Serialize(fields.Front))]
  /\ pc' = "rendered twice"
  /\ UNCHANGED <<storeVars, peerNotes, promptVars, configurations,
                 deckConfiguration, tags, duplicateIds, result, calls>>

NormalizerInit ==
  /\ Init
  /\ storage = NoItem
  /\ peerNotes = {}

NormalizerNext ==
  \/ \E text \in RawTexts : Render(text)
  \/ RenderAgain

NormalizerSpec == NormalizerInit /\ [][NormalizerNext]_vars

(***************************************************************************)
(* The store on its own: two handlers of the configuration command adding  *)
(* and removing configurations, starting from a store never written.       *)
(***************************************************************************)
MaxStoreEdits == 3

StoreInit ==
  /\ Init
  /\ storage = NoItem
  /\ peerNotes = {}

StoreNext ==
  \/ \E e \in Editors, c \in Presets :
       edits < MaxStoreEdits /\ addDeckConfigurationRead(e, c)
  \/ \E e \in Editors : addDeckConfigurationSave(e)
  \/ \E e \in Editors, d \in RemovableIds :
       edits < MaxStoreEdits /\ removeDeckConfigurationRead(e, d)
  \/ \E e \in Editors : removeDeckConfigurationSave(e)

StoreSpec == StoreInit /\ [][StoreNext]_vars

(***************************************************************************)
(* The client on its own: typed operations called one after another, each  *)
(* answered by some response.                                              *)
(***************************************************************************)
MaxClientCalls == 2

\* Responses of every shape { result: T | null, error: string | null }
\* allows, and the failures of the transport.
ClientResponses ==
  Failures \cup
    { ActionError("deck was not found"),
      Response(FALSE, TRUE, "OK", "deck was not found", FALSE, <<1>>),
      Response(FALSE, TRUE, "OK", "", FALSE, <<1>>),
      Success(<<1>>),
      Success(<<>>) }

\* One exchange: the operation, the response it got, what its caller got.
Exchange(operation, response) ==
  [by |-> "client", op |-> "fetch", action |-> operation,
   response |-> response, reply |-> TypedOperation(operation, response)]

CallOperation(operation, response) ==
  /\ pc = "idle"
  /\ calls' = Append(calls, Exchange(operation, response))
  /\ UNCHANGED <<storeVars, peerNotes, pc, promptVars, toolLocals, result>>

ClientInit ==
  /\ Init
  /\ storage = NoItem
  /\ peerNotes = {}

ClientNext ==
  \E operation \in Operations, response \in ClientResponses :
    Len(calls) < MaxClientCalls /\ CallOperation(operation, response)

ClientSpec == ClientInit /\ [][ClientNext]_vars

(***************************************************************************)
(* What a run did, read off its state.                                     *)
(***************************************************************************)
\* The calls the tool itself made (the confirmation's store read left out).
ToolCalls == SelectSeq(calls, LAMBDA c : c.by = "tool")

CallsOf(action) == {i \in DOMAIN calls : calls[i].action = action}

\* The peer actions that change the collection.
Mutations ==
  {i \in DOMAIN calls : calls[i].action \in {"addNote", "updateNoteFields"}}

Approved == decision \in Approvals

\* The run's outcome, by the message that ended it.
RejectionKinds ==
  {"invalidDeckId", "frontRequired", "backRequired", "cannotConnect",
   "noConfigurations", "notConfigured", "duplicatesFound", "createFailed"}

Outcome ==
  IF pc # "done" THEN "none"
  ELSE IF decision = "cancel" THEN "Cancelled"
  ELSE IF result.kind = "created" THEN "Created"
  ELSE IF result.kind = "updated" THEN "Updated"
  ELSE IF result.kind \in RejectionKinds THEN "Rejected"
  ELSE "none"

HasInfo(name) == \E i \in DOMAIN info : info[i].name = name
InfoValue(name) ==
  info[CHOOSE i \in DOMAIN info : info[i].name = name].value

NonBlank(text) == Trim(text) # <<>>

\* The duplicate search returned, and returned no ids.
SearchFoundNothing ==
  \E i \in CallsOf("findNotes") : ~calls[i].threw /\ calls[i].value = <<>>

\* The duplicate search or the detail lookup failed.
DuplicateCheckFailed ==
  \E i \in CallsOf("findNotes") \cup CallsOf("notesInfo") : calls[i].threw

\* The fields a create for this input has to carry.
NormalizedFields ==
  [Front |-> markdownToAnkiHtml(input.Front),
   Back  |-> markdownToAnkiHtml(input.Back)]

(***************************************************************************)
(* C1.  No addNote or updateNoteFields request is sent before the user has *)
(* approved the prompt; and a run the user cancels is over, Cancelled,     *)
(* with the tool never called and no such request ever sent.               *)
(***************************************************************************)
NoMutationBeforeApproval ==
  /\ Mutations # {} => Approved
  /\ decision = "cancel" =>
       /\ pc = "done"
       /\ Outcome = "Cancelled"
       /\ Mutations = {}
       /\ ToolCalls = <<>>
       /\ result = NoResult

CancelledRun ==
  pc = "done" /\ decision = "cancel" /\ Len(calls) = 1

(***************************************************************************)
(* C2, as stated: an approved submission with a configured deck, non-blank *)
(* Front and Back and a duplicate search that returned no ids ends         *)
(* Created.  (It does not when addNote fails.)                             *)
(***************************************************************************)
CleanSubmissionCreates ==
  ( /\ pc = "done"
    /\ Approved
    /\ FindIndex(configurations, input.deckId) # 0
    /\ NonBlank(input.Front) /\ NonBlank(input.Back)
    /\ SearchFoundNothing )
  => result.kind = "created"

(***************************************************************************)
(* C2, amended: such a submission whose addNote call returns an id ends    *)
(* Created with that id, and the fields sent to addNote (and reported)     *)
(* are exactly the rendered Front and Back.                                *)
(***************************************************************************)
CleanSubmissionCreatesWhenAddNoteReturns ==
  ( /\ pc = "done"
    /\ Approved
    /\ FindIndex(configurations, input.deckId) # 0
    /\ NonBlank(input.Front) /\ NonBlank(input.Back)
    /\ SearchFoundNothing )
  => /\ CallsOf("addNote") # {}
     /\ \A i \in CallsOf("addNote") :
          /\ calls[i].params[1].fields = NormalizedFields
          /\ ~calls[i].threw =>
               /\ result.kind = "created"
               /\ result.noteId = calls[i].value[1]
               /\ result.fields = NormalizedFields
               /\ \E n \in peerNotes : /\ n.noteId = result.noteId
                                       /\ n.fields = NormalizedFields

CreatedAfterEmptySearch ==
  /\ pc = "done"
  /\ result.kind = "created"
  /\ SearchFoundNothing
  /\ result.fields.Front # input.Front

(***************************************************************************)
(* C3, as stated: when the search returned a candidate and the user chose  *)
(* to update the existing entry, the run sends updateNoteFields for a      *)
(* candidate's id, ends Updated with that id and sends no addNote.         *)
(***************************************************************************)
UpdateExistingUpdatesCandidate ==
  (pc = "done" /\ decision = "approve-update" /\ Len(duplicateIds) > 0)
  => /\ Outcome = "Updated"
     /\ \E k \in DOMAIN duplicateIds : result.noteId = duplicateIds[k]
     /\ \E i \in CallsOf("updateNoteFields") : ~calls[i].threw
     /\ CallsOf("addNote") = {}

NonPositiveIntegerDeckIdRejected ==
  ( /\ pc = "done"
    /\ Approved
    /\ NonBlank(input.Front) /\ NonBlank(input.Back)
    /\ ~IsPositiveInteger(input.deckId) )
  => /\ result.kind = "invalidDeckId"
     /\ ToolCalls = <<>>

(***************************************************************************)
(* C6, as stated: a submission whose deck id, a positive integer, is not   *)
(* among the configurations it read ends with the not-configured-deck-id   *)
(* error and sends no addNote or updateNoteFields.  (With no               *)
(* configurations at all the error is the no-configurations one.)          *)
(***************************************************************************)
UnknownDeckIdRejectedAsUnknown ==
  ( /\ pc = "done"
    /\ Approved
    /\ IsPositiveInteger(input.deckId)
    /\ \E i \in DOMAIN calls :
         calls[i].by = "tool" /\ calls[i].op = "LocalStorage.getItem"
    /\ FindIndex(configurations, input.deckId) = 0 )
  => /\ result.kind = "notConfigured"
     /\ Mutations = {}

(***************************************************************************)
(* C6, amended: a submission whose deck id is not among the configurations *)
(* it read is rejected, as not configured when it read some configurations *)
(* and as without configurations when it read none, and the run sends no   *)
(* addNote or updateNoteFields; the same holds, with an earlier error, of  *)
(* a submission that ends before it reads them.                            *)
(***************************************************************************)
UnknownDeckIdRejected ==
  (pc = "done" /\ Approved /\ FindIndex(configurations, input.deckId) = 0)
  => /\ Outcome = "Rejected"
     /\ Mutations = {}
     /\ (\E i \in DOMAIN calls :
           calls[i].by = "tool" /\ calls[i].op = "LocalStorage.getItem")
        => /\ result.kind = IF Len(configurations) = 0 THEN "noConfigurations"
                            ELSE "notConfigured"
           /\ result.kind = "notConfigured" => result.deckId = input.deckId

UnknownDeckIdRun ==
  /\ pc = "done"
  /\ result.kind = "notConfigured"
  /\ Len(configurations) > 0
  /\ IsPositiveInteger(input.deckId)

(***************************************************************************)
(* C7.  When findNotes or notesInfo fails, the run does not end there: it  *)
(* goes on to addNote with the fields, tags and deck it would send after   *)
(* an empty search, and ends with what addNote gives.                      *)
(***************************************************************************)
DuplicateCheckFailureAbsorbed ==
  DuplicateCheckFailed =>
    /\ pc \in {"addNote", "done"}
    /\ pc = "done" =>
         /\ result.kind \in {"created", "createFailed"}
         /\ Cardinality(CallsOf("addNote")) = 1
         /\ calls[Len(calls)].action = "addNote"
         /\ calls[Len(calls)].params =
              <<AddNoteParams(deckConfiguration[1].deckName,
                              deckConfiguration[1].noteType,
                              NormalizedFields, ParseTags(input.tags))>>
         /\ result.kind = "created" <=> ~calls[Len(calls)].threw

CreatedAfterFailedDetailLookup ==
  /\ pc = "done"
  /\ result.kind = "created"
  /\ \E i \in CallsOf("notesInfo") : calls[i].threw

(***************************************************************************)
(* C8, as stated: once the duplicate search has returned candidates, the   *)
(* prompt the user was shown has an entry for each of them, beside the     *)
(* entries for the input.                                                  *)
(***************************************************************************)
PreviewListsCandidates ==
  Len(duplicateIds) > 0 =>
    Cardinality({i \in DOMAIN info :
                   info[i].name \notin {"Deck", "Note Type", "Front", "Back", "Tags"}})
      >= Len(duplicateIds)

(***************************************************************************)
(* C9, as stated: the Front and Back the prompt showed are the values the  *)
(* run committed.                                                          *)
(***************************************************************************)
PreviewShowsCommittedFields ==
  (pc = "done" /\ result.kind = "created")
  => /\ InfoValue("Front") = result.fields.Front
     /\ InfoValue("Back") = result.fields.Back

(***************************************************************************)
(* C9, amended: the prompt shows the Front and Back as submitted, not      *)
(* rendered; the deck name and note type of the configuration the          *)
(* confirmation read for the deck id (or "Deck ID <id>" and "Unknown"      *)
(* when it read none); and the tags, when there is one.                    *)
(***************************************************************************)
PreviewShowsSubmittedFields ==
  pc # "idle" =>
    LET read == calls[1].value
        idx  == FindIndex(read, input.deckId)
    IN  /\ calls[1].by = "confirmation"
        /\ InfoValue("Front") = input.Front
        /\ InfoValue("Back") = input.Back
        /\ InfoValue("Deck") = IF idx # 0 THEN <<read[idx].deckName>>
                               ELSE <<"Deck ID ", input.deckId>>
        /\ InfoValue("Note Type") = IF idx # 0 THEN <<read[idx].noteType>>
                                    ELSE <<"Unknown">>
        /\ HasInfo("Tags") <=> ParseTags(input.tags) # <<>>
        /\ HasInfo("Tags") =>
             InfoValue("Tags") = Join(ParseTags(input.tags), <<",", " ">>)
        /\ (pc = "done" /\ result.kind = "created") =>
             /\ result.fields.Front = InfoValue("Front")
                  <=> markdownToAnkiHtml(input.Front) = input.Front
             /\ result.fields.Back = InfoValue("Back")
                  <=> markdownToAnkiHtml(input.Back) = input.Back

PromptForEmphasisedFront ==
  /\ pc = "awaitingConfirmation"
  /\ input.Front = <<"_", "a", "_">>
  /\ InfoValue("Deck") = <<"Spanish::Vocab">>
  /\ HasInfo("Tags")

PeerActions ==
  {"version", "findNotes", "notesInfo", "addNote", "updateNoteFields"}

NoAutomaticRetry ==
  /\ \A a \in PeerActions : Cardinality(CallsOf(a)) <= 1
  /\ \A i \in DOMAIN calls :
       (calls[i].op = "fetch" /\ calls[i].threw) =>
         \/ /\ calls[i].action \in {"findNotes", "notesInfo"}
            /\ i < Len(calls) => calls[i + 1].action = "addNote"
         \/ /\ calls[i].action = "version"
            /\ i = Len(calls) /\ pc = "done" /\ result.kind = "cannotConnect"
         \/ /\ calls[i].action = "addNote"
            /\ i = Len(calls) /\ pc = "done" /\ result.kind = "createFailed"

\* The peer added the note, the response was lost, and the run ended with
\* the failure message after its one create.
AmbiguousCreateNotRetried ==
  /\ pc = "done"
  /\ result.kind = "createFailed"
  /\ result.errorMessage = <<"fetch failed">>
  /\ Cardinality(CallsOf("addNote")) = 1
  /\ \E n \in peerNotes : n.fields = fields /\ n.tags = tags
                           /\ n.fields.Back = <<"<em>", "b", "</em>">>

(***************************************************************************)
(* C12.  A probe that failed (rejected fetch, error status, error field or *)
(* null result) ends the run with the cannot-connect message: the probe is *)
(* the tool's only call, so no configurations were read, nothing searched  *)
(* and nothing created.                                                    *)
(***************************************************************************)
ProbeFailureRejects ==
  \A i \in CallsOf("version") :
    calls[i].threw =>
      /\ pc = "done"
      /\ result = CannotConnect
      /\ Len(ToolCalls) = 1

ProbeFailedRun ==
  /\ Approved
  /\ pc = "done"
  /\ \E i \in CallsOf("version") : calls[i].threw
  /\ storage # NoItem

(***************************************************************************)
(* C13.  When the tool reads an empty list of configurations the run ends  *)
(* with the no-configurations message, not the not-configured-id one, and  *)
(* sends neither a search nor a create.                                    *)
(***************************************************************************)
EmptyStoreNotConfigured ==
  \A i \in DOMAIN calls :
    (calls[i].by = "tool" /\ calls[i].op = "LocalStorage.getItem"
       /\ calls[i].value = <<>>) =>
      /\ pc = "done"
      /\ result = NoConfigurations
      /\ CallsOf("findNotes") = {}
      /\ CallsOf("notesInfo") = {}
      /\ Mutations = {}

EmptyStoreRun ==
  /\ pc = "done"
  /\ IsPositiveInteger(input.deckId)
  /\ \E i \in DOMAIN calls :
       /\ calls[i].by = "tool" /\ calls[i].op = "LocalStorage.getItem"
       /\ calls[i].value = <<>>

(***************************************************************************)
(* C14.  A create that threw ends the run with the failure message, which  *)
(* carries the caught error's message unchanged and names the note type    *)
(* and the deck the create was sent for; the create was sent once and no   *)
(* update was sent.                                                        *)
(***************************************************************************)
CommitFailureReported ==
  \A i \in CallsOf("addNote") :
    calls[i].threw =>
      /\ pc = "done"
      /\ result = CreateFailed(deckConfiguration[1], calls[i].message)
      /\ result.noteType = calls[i].params[1].modelName
      /\ result.deckName = calls[i].params[1].deckName
      /\ Cardinality(CallsOf("addNote")) = 1
      /\ CallsOf("updateNoteFields") = {}

\* The peer's duplicate guard refused the note.
PeerRefusalReported ==
  /\ pc = "done"
  /\ result.kind = "createFailed"
  /\ result.errorMessage = <<"cannot create note because it is a duplicate">>
  /\ result.deckName = "Spanish::Vocab"
  /\ result.noteType = "Basic"

(***************************************************************************)
(* C15.  A create is sent only while the store still holds a configuration *)
(* for the submitted deck id: a configuration removed during the run,      *)
(* before or after the tool has looked it up, keeps the create from being  *)
(* sent.                                                                   *)
(***************************************************************************)
CreateOnlyForStoredPreset ==
  [][(pc = "addNote" /\ pc' = "done") =>
       FindIndex(getDeckConfigurations(storage), input.deckId) # 0]_vars
(***************************************************************************)
(* C16.  From a store never written, whatever the two handlers add and     *)
(* remove and however their reads and writes interleave, the stored list   *)
(* holds at most one configuration per deck id.                            *)
(***************************************************************************)
StoredList == getDeckConfigurations(storage)

UniqueDeckIds ==
  \A i, j \in DOMAIN StoredList :
    i # j => ~StrictEquals(StoredList[i].deckId, StoredList[j].deckId)

\* Two configurations are stored after three operations, and a handler
\* that read an older list is still in flight.
TwoStoredWhileStaleHandlerPending ==
  /\ Len(StoredList) = 2
  /\ edits = 3
  /\ \E e \in Editors : /\ editor[e].op = "add"
                         /\ editor[e].configurations # StoredList

(***************************************************************************)
(* C17.  A handler that writes while the store still holds the list it     *)
(* read leaves, for an add, the configurations of the other deck ids in    *)
(* their order and unchanged, followed by the added one; for a remove, the *)
(* list without the configurations of that deck id, which a second remove  *)
(* of the same id would leave as it is.                                    *)
(***************************************************************************)
OthersOf(list, deckId) == SelectSeq(list, LAMBDA c : c.deckId # deckId)

Completes(e) == editor[e].op # "none" /\ editor'[e].op = "none"

UninterferedStoreOperation ==
  [][\A e \in Editors :
       (Completes(e) /\ editor[e].configurations = StoredList) =>
         LET after == getDeckConfigurations(storage')
         IN  /\ editor[e].op = "add" =>
                  after = Append(OthersOf(StoredList, editor[e].deckId),
                                 editor[e].configuration)
             /\ editor[e].op = "remove" =>
                  /\ after = OthersOf(StoredList, editor[e].deckId)
                  /\ OthersOf(after, editor[e].deckId) = after]_vars

\* Deck 1 was added, then deck 2, then deck 1 again under its new name.
ReaddedPresetIsLast ==
  /\ StoredList = <<JapaneseVocab, SpanishWords>>
  /\ edits = 3
  /\ \A e \in Editors : editor[e].op = "none"

(***************************************************************************)
(* C18.  A handler that writes after another handler has written since its *)
(* read writes its own operation applied to the list it read: what the     *)
(* other handler added in between is gone and what it removed is back, so  *)
(* the store lacks the effect of an operation that completed.              *)
(***************************************************************************)
Range(list) == {list[i] : i \in DOMAIN list}

StaleSaveLosesUpdate ==
  [][\A e \in Editors :
       (Completes(e) /\ editor[e].configurations # StoredList) =>
         LET read  == Range(editor[e].configurations)
             after == Range(getDeckConfigurations(storage'))
         IN  /\ \A c \in Range(StoredList) \ read :
                  c.deckId # editor[e].deckId => c \notin after
             /\ \A c \in read \ Range(StoredList) :
                  c.deckId # editor[e].deckId => c \in after]_vars

\* Two operations have completed and the store holds Japanese alone, while
\* a handler that read the list [Spanish] is in flight: the first write
\* stored Spanish, the second, of a handler that had read the empty list,
\* stored Japanese over it.
LostUpdate ==
  /\ StoredList = <<JapaneseVocab>>
  /\ edits = 2
  /\ \E e \in Editors : /\ editor[e].op # "none"
                         /\ editor[e].configurations = <<SpanishVocab>>

(***************************************************************************)
(* C19.  invokeAnkiConnect returns only for a response with a success      *)
(* status, a null error and a non-null result; it fails as peer            *)
(* unavailable when the fetch is rejected or the status is no success; and *)
(* it fails with the error's text for every response whose error is not    *)
(* null, whatever its result.                                              *)
(***************************************************************************)
ErrorClass(reply) ==
  IF reply.message[1] \in {"fetch failed", "AnkiConnect request failed: "}
    THEN "PeerUnavailable"
  ELSE IF reply.message[1] = "AnkiConnect returned null result"
    THEN "PeerEmptyResult"
  ELSE "PeerActionError"

Answered(response) == ~response.fetchRejected /\ response.ok

InvokeErrorTaxonomy ==
  \A i \in DOMAIN calls :
    LET response == calls[i].response
        reply    == calls[i].reply
    IN  /\ ~reply.threw =>
             /\ Answered(response)
             /\ response.error = Null
             /\ ~response.resultIsNull
        /\ ~Answered(response) =>
             reply.threw /\ ErrorClass(reply) = "PeerUnavailable"
        /\ (Answered(response) /\ response.error # Null) =>
             reply.threw /\ reply.message = <<response.error>>

(***************************************************************************)
(* C20.  A null result is a failure only where a result is expected: the   *)
(* operations that return a value throw the null-result error on it, and   *)
(* updateNoteFields, which returns nothing, completes on a response with a *)
(* success status, a null error and a null result.                         *)
(***************************************************************************)
ExpectsResult(operation) == operation # "updateNoteFields"

NullAnswer(response) ==
  Answered(response) /\ response.error = Null /\ response.resultIsNull

NullResultFailsOnlyWhenExpected ==
  \A i \in DOMAIN calls :
    LET response == calls[i].response
        reply    == calls[i].reply
    IN  /\ (reply.threw /\ ErrorClass(reply) = "PeerEmptyResult") =>
             response.resultIsNull /\ ExpectsResult(calls[i].action)
        /\ (NullAnswer(response) /\ ExpectsResult(calls[i].action)) =>
             reply.threw /\ ErrorClass(reply) = "PeerEmptyResult"
        /\ (NullAnswer(response) /\ ~ExpectsResult(calls[i].action)) =>
             ~reply.threw

(***************************************************************************)
(* C21.  Every addNote request carries allowDuplicate: false, and of two   *)
(* runs that send the same note to a peer whose guard refuses a note that  *)
(* exists, at most one is answered with an id: the other's addNote throws, *)
(* and the run ends with the failure message carrying the thrown message.  *)
(***************************************************************************)
ReturnedCreates == {i \in CallsOf("addNote") : ~calls[i].threw}

AtMostOneConcurrentCreate ==
  /\ \A i \in CallsOf("addNote") :
       ~calls[i].params[1].options.allowDuplicate
  /\ Cardinality(ReturnedCreates) <= 1
  /\ \A i \in ReturnedCreates :
       \A j \in CallsOf("addNote") \ {i} :
         /\ calls[j].threw
         /\ calls[j].by = "tool" =>
              /\ pc = "done"
              /\ result = CreateFailed(deckConfiguration[1], calls[j].message)

\* The concurrent run's note was added first; this run, whose search had
\* found nothing, was refused by the peer's guard.
RefusedAfterConcurrentCreate ==
  /\ pc = "done"
  /\ SearchFoundNothing
  /\ result.kind = "createFailed"
  /\ result.errorMessage = <<"cannot create note because it is a duplicate">>
  /\ \E i \in ReturnedCreates : calls[i].by = ConcurrentRun

(***************************************************************************)
(* C22.  No step of add-card, of its confirmation or of get-deck-          *)
(* configurations changes what the store holds: the store changes only in  *)
(* the steps of the configuration command.                                 *)
(***************************************************************************)
ReadersLeaveStoreAlone ==
  [][(pc' # pc \/ calls' # calls \/ result' # result) =>
       storage' = storage]_vars

\* All three operations have run against a store never written.
AllThreeRanOnUnwrittenStore ==
  /\ storage = NoItem
  /\ pc = "done"
  /\ \A by \in {Discovery, "confirmation", "tool"} :
       \E i \in DOMAIN calls : calls[i].by = by
                                /\ calls[i].op = "LocalStorage.getItem"

(***************************************************************************)
(* C23.  get-deck-configurations returns the error object exactly when the *)
(* list it read is empty; otherwise it returns one entry per configuration *)
(* of the list, in the list's order, with that configuration's id, name,   *)
(* purpose, note type, templates and examples.                             *)
(***************************************************************************)
DiscoveryRead ==
  calls[CHOOSE i \in DOMAIN calls : calls[i].by = Discovery].value

DiscoveryListsStore ==
  "present" \in DOMAIN result =>
    LET output == JSONParse(result)
    IN  /\ "error" \in DOMAIN output <=> DiscoveryRead = <<>>
        /\ "error" \in DOMAIN output <=> "decks" \notin DOMAIN output
        /\ "decks" \in DOMAIN output =>
             /\ Len(output.decks) = Len(DiscoveryRead)
             /\ \A i \in DOMAIN DiscoveryRead :
                  LET entry == output.decks[i]
                      c     == DiscoveryRead[i]
                  IN  /\ entry.deckId = c.deckId
                      /\ entry.deckName = c.deckName
                      /\ entry.purpose = c.purpose
                      /\ entry.noteType = c.noteType
                      /\ entry.frontTemplate = c.frontTemplate
                      /\ entry.backTemplate = c.backTemplate
                      /\ entry.frontExample = c.frontExample
                      /\ entry.backExample = c.backExample

TwoDecksListed ==
  /\ "present" \in DOMAIN result
  /\ "decks" \in DOMAIN JSONParse(result)
  /\ Len(JSONParse(result).decks) = 2
  /\ JSONParse(result).decks[2].deckName = "Japanese::Vocabulary"

(***************************************************************************)
(* C24.  Whatever the probe, the read of the configurations, the search,   *)
(* the detail lookup and the create come to, a run of the tool that is     *)
(* over has returned one of its messages: it has not ended by throwing,    *)
(* and it has left no step untaken.                                        *)
(***************************************************************************)
\* The tool's promise has settled: with one of its messages.
SubmissionEndsWithMessage ==
  (Approved /\ pc \in {"done", "threw"}) =>
    (pc = "done" /\ result.kind \in RejectionKinds \cup {"created"})

CandidatesReported ==
  /\ \E i \in CallsOf("findNotes") : ~calls[i].threw /\ calls[i].value # <<>>
  /\ \E i \in CallsOf("notesInfo") : ~calls[i].threw

ReadBy(by) ==
  calls[CHOOSE i \in DOMAIN calls :
          calls[i].by = by /\ calls[i].op = "LocalStorage.getItem"].value

NameIn(read, deckId) == read[FindIndex(read, deckId)].deckName

SearchUsesRawFrontAndOwnDeckName ==
  \A i \in CallsOf("findNotes") :
    /\ FindIndex(ReadBy("tool"), input.deckId) # 0
    /\ calls[i].params =
         << <<"deck:\"", NameIn(ReadBy("tool"), input.deckId), "\" ">>
              \o input.Front >>

SearchedAfterRename ==
  /\ CallsOf("findNotes") # {}
  /\ input.Front = <<"_", "a", "_">>
  /\ Serialize(fields.Front) # input.Front
  /\ FindIndex(ReadBy("confirmation"), input.deckId) # 0
  /\ NameIn(ReadBy("confirmation"), input.deckId)
       # NameIn(ReadBy("tool"), input.deckId)

(***************************************************************************)
(* C29.  An edit that moves a stored configuration to another deck leaves  *)
(* the store, when the handler is over, with the old configuration, or     *)
(* with the new one and none for the old deck; never with neither.         *)
(***************************************************************************)
EditIsAllOrNothing ==
  (/\ pc = "done"
   /\ result.kind \in {"configurationUpdated", "updateFailed"}
   /\ ~StrictEquals(input.deckId, deckConfiguration[1].deckId)) =>
    \/ deckConfiguration[1] \in Range(StoredList)
    \/ /\ input \in Range(StoredList)
       /\ FindIndex(StoredList, deckConfiguration[1].deckId) = 0
====
